---- MODULE Spec2Model ----
(***************************************************************************)
(* Contract ingestion pipeline of the sponsorship dashboard:               *)
(*   services/storage.py      build_contract_store                         *)
(*   services/vectorstores.py build_vectorstore_from_chunks                *)
(*   services/s3store.py      s3_enabled, upload_bytes                     *)
(* and the routing, task lists and asset catalogs of its Streamlit app:    *)
(*   app.py                   set_route, _brand_tabs, render_settings      *)
(* Strings are sequences of one-character strings, so that lower() and     *)
(* endswith() are computed and not assumed.                                *)
(***************************************************************************)
EXTENDS Integers, Sequences, FiniteSets, TLC

\* ------------------------------------------------------------------ bounds
MaxPaths == 2
MaxChunks == 2
MaxCalls == 2

\* --------------------------------------------------------------- strings
UpperChars == <<"A","B","C","D","E","F","G","H","I","J","K","L","M",
                "N","O","P","Q","R","S","T","U","V","W","X","Y","Z">>
LowerChars == <<"a","b","c","d","e","f","g","h","i","j","k","l","m",
                "n","o","p","q","r","s","t","u","v","w","x","y","z">>

\* str.lower() on one character
LowerChar(c) ==
    IF \E i \in DOMAIN UpperChars : UpperChars[i] = c
    THEN LowerChars[CHOOSE i \in DOMAIN UpperChars : UpperChars[i] = c]
    ELSE c

\* str.lower()
Lower(s) == [i \in DOMAIN s |-> LowerChar(s[i])]

\* str.endswith(suffix)
EndsWith(s, suffix) ==
    /\ Len(s) >= Len(suffix)
    /\ SubSeq(s, Len(s) - Len(suffix) + 1, Len(s)) = suffix

PdfSuffix == <<".","p","d","f">>
StrPinecone == <<"p","i","n","e","c","o","n","e">>
StrQdrant == <<"q","d","r","a","n","t">>
StrChroma == <<"c","h","r","o","m","a">>
\* default of PINECONE_INDEX and of QDRANT_COLLECTION
StrSportsAi == <<"s","p","o","r","t","s","_","a","i">>
\* the collection Chroma.from_documents uses when none is named
StrLangchain == <<"l","a","n","g","c","h","a","i","n">>

\* ----------------------------------------------------------- environment
\* os.getenv(name): a variable is unset (None) or set to a string, which
\* may be empty.
EnvUnset == [isset |-> FALSE, value |-> <<>>]
EnvStr(s) == [isset |-> TRUE, value |-> s]

\* Python truthiness of os.getenv(name): None and "" are falsy
Truthy(v) == v.isset /\ v.value # <<>>

\* os.getenv(name) or default
GetenvOr(v, default) == IF Truthy(v) THEN v.value ELSE default

ProviderValues ==
    { EnvUnset, EnvStr(<<>>),
      EnvStr(StrPinecone), EnvStr(<<"P","i","n","e","c","o","n","e">>),
      EnvStr(StrQdrant), EnvStr(<<"Q","D","R","A","N","T">>),
      EnvStr(StrChroma), EnvStr(<<"C","h","r","o","m","a">>),
      EnvStr(<<"f","a","i","s","s">>) }

SecretValues == { EnvUnset, EnvStr(<<>>), EnvStr(<<"k">>) }
FlagValues == { EnvUnset, EnvStr(<<"k">>) }

Envs ==
    [ VECTOR_DB_PROVIDER : ProviderValues,
      PINECONE_API_KEY   : SecretValues,
      PINECONE_ENV       : SecretValues,
      QDRANT_URL         : SecretValues,
      QDRANT_API_KEY     : FlagValues,
      QDRANT_COLLECTION  : FlagValues,
      PINECONE_INDEX     : { EnvUnset },
      OPENAI_API_KEY     : FlagValues,
      S3_BUCKET          : FlagValues ]

\* ------------------------------------------------------------ file system
\* A path handed to build_contract_store together with what the file
\* system holds there: whether it exists, the text of its pages, and
\* whether PyPDFLoader can parse it.
File(path, exists, parses, pages) ==
    [path |-> path, exists |-> exists, parses |-> parses, pages |-> pages]

Files ==
    { File(<<"a",".","p","d","f">>, TRUE,  TRUE,  << <<"x","y">>, <<>> >>),
      File(<<"B",".","P","D","F">>, TRUE,  TRUE,  << <<"z">> >>),
      File(<<"e",".","p","d","f">>, TRUE,  TRUE,  << <<>>, <<>> >>),
      File(<<"k",".","p","d","f">>, TRUE,  FALSE, <<>>),
      File(<<"c",".","t","x","t">>, TRUE,  TRUE,  << <<"w">> >>),
      File(<<"m",".","p","d","f">>, FALSE, FALSE, <<>>) }

RECURSIVE SeqsUpTo(_, _)
\* all sequences over S of length 0..n
SeqsUpTo(S, n) ==
    IF n = 0 THEN { <<>> }
    ELSE LET shorter == SeqsUpTo(S, n - 1)
         IN  shorter \cup { Append(q, x) : q \in shorter, x \in S }

\* --------------------------------------------------------------- loader
\* PyPDFLoader(p).load(): one Document per page, page numbers from 0
Document(text, source, page) ==
    [page_content |-> text, source |-> source, page |-> page]

LoaderLoad(f) ==
    [i \in DOMAIN f.pages |-> Document(f.pages[i], f.path, i - 1)]

\* variant: the extension is compared without lower()
PathAccepted_CaseSensitive(f) == EndsWith(f.path, PdfSuffix) /\ f.exists

\* variant: the existence check is left out
PathAccepted_NoExists(f) == EndsWith(Lower(f.path), PdfSuffix)

\* the path filter of the ingestion loop
PathAccepted(f) == EndsWith(Lower(f.path), PdfSuffix) /\ f.exists

\* s3store.s3_enabled()
s3_enabled(e) == Truthy(e.S3_BUCKET)

\* -------------------------------------------------------------- chunker
\* RecursiveCharacterTextSplitter(chunk_size=1000, chunk_overlap=150)
chunk_size == 1000
chunk_overlap == 150

Whitespace == {" ", "\n", "\t", "\r"}

\* the default separators of RecursiveCharacterTextSplitter
Separators == << <<"\n", "\n">>, <<"\n">>, <<" ">>, <<>> >>

\* A piece of a page text t is kept as the pair <<first, last>> of its
\* positions in t.  With keep_separator the pieces of a split lie side by
\* side in t, so joining neighbouring pieces with "" gives the slice from
\* the first position of the first to the last position of the last.
SliceLen(p) == p[2] - p[1] + 1

SetMin(S) == CHOOSE x \in S : \A y \in S : x <= y
SetMax(S) == CHOOSE x \in S : \A y \in S : x >= y

\* the separator stands at position i of t
MatchAt(t, i, sep) == \A j \in DOMAIN sep : t[i + j - 1] = sep[j]

\* re.search(separator, text) on the piece a..b
Occurs(t, a, b, sep) == \E i \in a..(b - Len(sep) + 1) : MatchAt(t, i, sep)

RECURSIVE MatchStarts(_, _, _, _)
\* where the matches of re.split start: leftmost first, not overlapping
MatchStarts(t, a, b, sep) ==
    LET found == { i \in a..(b - Len(sep) + 1) : MatchAt(t, i, sep) }
    IN  IF found = {} THEN <<>>
        ELSE <<SetMin(found)>> \o MatchStarts(t, SetMin(found) + Len(sep), b, sep)

\* _split_text_with_regex(text, separator, keep_separator=True): the text
\* before the first separator, then every separator with the text that
\* follows it; list(text) for the separator ""; empty pieces are dropped
SplitWithRegex(t, a, b, sep) ==
    IF b < a THEN <<>>
    ELSE IF sep = <<>> THEN [k \in 1..(b - a + 1) |-> <<a + k - 1, a + k - 1>>]
    ELSE LET starts == MatchStarts(t, a, b, sep)
             begins == IF starts # <<>> /\ starts[1] = a THEN starts
                       ELSE <<a>> \o starts
         IN  [k \in DOMAIN begins |->
                <<begins[k], IF k < Len(begins) THEN begins[k + 1] - 1 ELSE b>>]

\* `total` of _merge_splits for the window of pieces s..e
TotalLen(splits, s, e) == IF e < s THEN 0 ELSE splits[e][2] - splits[s][1] + 1

\* TextSplitter._join_docs for the window s..e with separator "": the
\* joined text, stripped of whitespace at both ends, is appended to out
\* unless it is empty
JoinDocs(t, out, splits, s, e) ==
    IF e < s THEN out
    ELSE LET solid == { i \in splits[s][1]..splits[e][2] : t[i] \notin Whitespace }
         IN  IF solid = {} THEN out
             ELSE Append(out, <<SetMin(solid), SetMax(solid)>>)

\* variant: the whole window is dropped, so no overlap is carried over
PopFront_DropAll(splits, s, i) == i

\* the while loop of _merge_splits, entered when piece i does not fit the
\* window s..i-1: pieces are dropped from the front while the window is
\* longer than the overlap or still has no room for piece i; the result
\* is the first piece that stays
PopFront(splits, s, i) ==
    SetMin({ s2 \in s..i :
               LET total == TotalLen(splits, s2, i - 1)
               IN  ~( \/ total > chunk_overlap
                      \/ total + SliceLen(splits[i]) > chunk_size /\ total > 0 ) })

RECURSIVE MergeLoop_NoLastWindow(_, _, _, _, _, _)
\* variant: the window left when the pieces run out is not emitted
MergeLoop_NoLastWindow(t, splits, s, from, hi, out) ==
    LET full == { i \in from..hi :
                    i > s /\ TotalLen(splits, s, i - 1) + SliceLen(splits[i]) > chunk_size }
    IN  IF full = {} THEN out
        ELSE LET i == SetMin(full)
             IN  MergeLoop_NoLastWindow(t, splits, PopFront(splits, s, i), i + 1, hi,
                                        JoinDocs(t, out, splits, s, i - 1))

RECURSIVE MergeLoop(_, _, _, _, _, _)
\* TextSplitter._merge_splits(splits[..hi], "") with the window s..from-1
\* built so far: pieces are appended up to the first piece i that does not
\* fit; there the window is emitted, shortened from the front, and the
\* loop goes on with piece i appended.  The last window is emitted too.
MergeLoop(t, splits, s, from, hi, out) ==
    LET full == { i \in from..hi :
                    i > s /\ TotalLen(splits, s, i - 1) + SliceLen(splits[i]) > chunk_size }
    IN  IF full = {} THEN JoinDocs(t, out, splits, s, hi)
        ELSE LET i == SetMin(full)
             IN  MergeLoop(t, splits, PopFront(splits, s, i), i + 1, hi,
                           JoinDocs(t, out, splits, s, i - 1))

RECURSIVE SplitText(_, _, _, _)
RECURSIVE SplitRuns(_, _, _, _)

\* the for loop of _split_text from piece k0 on: runs of pieces shorter
\* than chunk_size are merged; a piece that is not shorter is split with
\* the remaining separators, or kept whole when none remains
SplitRuns(t, splits, new_separators, k0) ==
    LET long == { k \in k0..Len(splits) : SliceLen(splits[k]) >= chunk_size }
    IN  IF long = {} THEN MergeLoop(t, splits, k0, k0, Len(splits), <<>>)
        ELSE LET k == SetMin(long)
             IN  MergeLoop(t, splits, k0, k0, k - 1, <<>>)
                 \o (IF new_separators = <<>> THEN <<splits[k]>>
                     ELSE SplitText(t, splits[k][1], splits[k][2], new_separators))
                 \o SplitRuns(t, splits, new_separators, k + 1)

\* RecursiveCharacterTextSplitter._split_text(text, separators) on the
\* piece a..b: the first separator that occurs in it is used ("" always
\* does), the last one if none occurs
SplitText(t, a, b, separators) ==
    LET usable == { j \in DOMAIN separators :
                      separators[j] = <<>> \/ Occurs(t, a, b, separators[j]) }
        j == IF usable = {} THEN Len(separators) ELSE SetMin(usable)
        new_separators == IF usable = {} \/ separators[j] = <<>> THEN <<>>
                          ELSE SubSeq(separators, j + 1, Len(separators))
    IN  SplitRuns(t, SplitWithRegex(t, a, b, separators[j]), new_separators, 1)

\* RecursiveCharacterTextSplitter.split_text(text): the chunk texts
split_text(text) ==
    LET slices == SplitText(text, 1, Len(text), Separators)
    IN  [k \in DOMAIN slices |-> SubSeq(text, slices[k][1], slices[k][2])]

RECURSIVE split_documents_Joined(_)
\* variant: the texts of two pages that follow each other are joined before
\* they are split, whatever their sources
split_documents_Joined(docs) ==
    IF docs = <<>> THEN <<>>
    ELSE LET d == Head(docs)
             text == IF Len(docs) = 1 THEN d.page_content
                     ELSE d.page_content \o docs[2].page_content
             parts == split_text(text)
         IN  [i \in DOMAIN parts |-> Document(parts[i], d.source, d.page)]
             \o split_documents_Joined(SubSeq(docs, 3, Len(docs)))

RECURSIVE split_documents_MergePages(_)
\* variant: the text of a page is joined with the text of the page after
\* it when both are of the same source; the chunks take over the metadata
\* of the first of the two
split_documents_MergePages(docs) ==
    IF docs = <<>> THEN <<>>
    ELSE LET d == Head(docs)
             merge == Len(docs) >= 2 /\ docs[2].source = d.source
             text == IF merge THEN d.page_content \o docs[2].page_content
                     ELSE d.page_content
             parts == split_text(text)
         IN  [i \in DOMAIN parts |-> Document(parts[i], d.source, d.page)]
             \o split_documents_MergePages(SubSeq(docs, IF merge THEN 3 ELSE 2, Len(docs)))

RECURSIVE split_documents(_)
\* TextSplitter.split_documents: every page is split on its own and each
\* chunk takes over the metadata of its page
split_documents(docs) ==
    IF docs = <<>> THEN <<>>
    ELSE LET d == Head(docs)
             parts == split_text(d.page_content)
         IN  [i \in DOMAIN parts |-> Document(parts[i], d.source, d.page)]
             \o split_documents(Tail(docs))

\* --------------------------------------------------------- vector stores
\* search_kwargs={"k": 5}
SearchK == 5

\* Python None as a retriever value
NoneRetriever == [store |-> "None", name |-> <<>>, k |-> 0, docs |-> <<>>]

\* variant: as_retriever() without search_kwargs, which retrieves 4 chunks
AsRetriever_DefaultK(store, name, chunks) ==
    [store |-> store, name |-> name, k |-> 4, docs |-> chunks]

\* vectordb.as_retriever(search_kwargs={"k": 5}) over the store that
\* from_documents built
AsRetriever(store, name, chunks) ==
    [store |-> store, name |-> name, k |-> SearchK, docs |-> chunks]

\* outcome of a call: the returned 3-tuple, or the exception that left it,
\* with the external calls made on the way
Returned(retriever, n, provider, calls) ==
    [status |-> "returned", retriever |-> retriever, n_chunks |-> n,
     provider |-> provider, error |-> "", calls |-> calls]

Raised(error, calls) ==
    [status |-> "raised", retriever |-> NoneRetriever, n_chunks |-> 0,
     provider |-> "", error |-> error, calls |-> calls]

\* variant: the .lower() call is left out
SelectedProvider_NoLower(e) == GetenvOr(e.VECTOR_DB_PROVIDER, StrPinecone)

\* variant: a value that names no provider is replaced by the default
SelectedProvider_UnknownToDefault(e) ==
    LET p == Lower(GetenvOr(e.VECTOR_DB_PROVIDER, StrPinecone))
    IN  IF p \in {StrPinecone, StrQdrant, StrChroma} THEN p ELSE StrPinecone

\* provider = (os.getenv("VECTOR_DB_PROVIDER") or "pinecone").lower()
SelectedProvider(e) == Lower(GetenvOr(e.VECTOR_DB_PROVIDER, StrPinecone))

\* variant: `and` in place of `or`
PineconeNotConfigured_BothMissing(e) ==
    ~Truthy(e.PINECONE_API_KEY) /\ ~Truthy(e.PINECONE_ENV)

\* if not api_key or not env
PineconeNotConfigured(e) ==
    ~Truthy(e.PINECONE_API_KEY) \/ ~Truthy(e.PINECONE_ENV)

\* variant: the API key is tested in place of the URL
QdrantNotConfigured_ApiKey(e) == ~Truthy(e.QDRANT_API_KEY)

\* variant: the test is inverted
QdrantNotConfigured_Inverted(e) == Truthy(e.QDRANT_URL)

\* if not url
QdrantNotConfigured(e) == ~Truthy(e.QDRANT_URL)

\* variant: a failed embedding call is caught and an empty local index is
\* returned under the fallback label
FromDocuments_EmbedFallback(store, name, chunks, label, calls) ==
    LET made == Append(calls, store)
    IN  { Returned(AsRetriever(store, name, chunks), Len(chunks), label, made) }
        \cup (IF chunks # <<>>
              THEN { Returned(AsRetriever("chroma", StrLangchain, <<>>), 0,
                              "chroma (fallback)", Append(made, "embed")) }
              ELSE {})
        \cup (IF store # "chroma" \/ chunks = <<>>
              THEN { Raised("StoreFailure:" \o store, made) }
              ELSE {})

\* <Store>.from_documents(chunks, embeddings, ...) followed by the return
\* statement of its branch.  The embedding service is called when there is
\* text to embed and may fail ("embed" in the calls marks the failed call);
\* a remote store may fail; the local store
\* is only known to refuse an empty batch, which depends on its version.
FromDocuments(store, name, chunks, label, calls) ==
    LET made == Append(calls, store)
    IN  { Returned(AsRetriever(store, name, chunks), Len(chunks), label, made) }
        \cup (IF chunks # <<>>
              THEN { Raised("EmbeddingFailure", Append(made, "embed")) }
              ELSE {})
        \cup (IF store # "chroma" \/ chunks = <<>>
              THEN { Raised("StoreFailure:" \o store, made) }
              ELSE {})

\* lines 15-27: the pinecone branch, after `import pinecone`
PineconeBranch(chunks, e, calls) ==
    IF PineconeNotConfigured(e)
    THEN FromDocuments("chroma", StrLangchain, chunks, "chroma (fallback)", calls)
    ELSE { Raised("StoreFailure:pinecone", Append(calls, "pinecone.init")) }
         \cup FromDocuments("pinecone", GetenvOr(e.PINECONE_INDEX, StrSportsAi),
                            chunks, "pinecone",
                            Append(calls, "pinecone.init"))

\* lines 29-40: the qdrant branch, after `from qdrant_client import ...`
QdrantBranch(chunks, e, calls) ==
    IF QdrantNotConfigured(e)
    THEN FromDocuments("chroma", StrLangchain, chunks, "chroma (fallback)", calls)
    ELSE { Raised("StoreFailure:qdrant", Append(calls, "QdrantClient")) }
         \cup FromDocuments("qdrant", GetenvOr(e.QDRANT_COLLECTION, StrSportsAi),
                            chunks, "qdrant",
                            Append(calls, "QdrantClient"))

\* variant: the label of the fallback branches is returned
ChromaBranch_FallbackLabel(chunks, calls) ==
    FromDocuments("chroma", StrLangchain, chunks, "chroma (fallback)", calls)

\* lines 42-44: the default branch
ChromaBranch(chunks, calls) ==
    FromDocuments("chroma", StrLangchain, chunks, "chroma", calls)

\* build_vectorstore_from_chunks(chunks, embed_model): every outcome the
\* call can have under environment e.  OpenAIEmbeddings(model=...) refuses
\* to be constructed without an API key.  The packages the function
\* imports are taken to be installed.
build_vectorstore_from_chunks(chunks, e) ==
    LET provider == SelectedProvider(e)
    IN  IF ~Truthy(e.OPENAI_API_KEY)
        THEN { Raised("EmbeddingFailure", <<"OpenAIEmbeddings">>) }
        ELSE IF provider = StrPinecone
        THEN PineconeBranch(chunks, e, <<"OpenAIEmbeddings">>)
        ELSE IF provider = StrQdrant
        THEN QdrantBranch(chunks, e, <<"OpenAIEmbeddings">>)
        ELSE ChromaBranch(chunks, <<"OpenAIEmbeddings">>)

\* ------------------------------------------------------------------ state
VARIABLES
    env,        \* the process environment (os.environ)
    pc,         \* "idle", "loop" (inside build_contract_store), "done"
    entry,      \* which function was called
    pdf_paths,  \* argument of build_contract_store
    next_path,  \* position of the for loop in pdf_paths
    docs,       \* pages loaded so far
    chunks,     \* chunk list handed to build_vectorstore_from_chunks
    result,     \* outcome of the call
    calls,      \* external calls made by the call, in order
    index,      \* what the vector stores hold: one entry per stored chunk
    ncalls,     \* number of calls made so far in this process
    retrieved,  \* the chunks the retriever gave for the last question
    pages,      \* the source pages listed with the last answer
    qp,            \* st.query_params of the app's browser tab
    session_state, \* st.session_state of the app's session
    disk,          \* the JSON files under data/
    script,        \* the last run of the app's script
    runtime        \* the Streamlit runtime the app runs on

query_vars == <<retrieved, pages>>

app_vars == <<qp, session_state, disk, script, runtime>>

vars == <<env, pc, entry, pdf_paths, next_path, docs, chunks, result, calls,
          index, ncalls, retrieved, pages, qp, session_state, disk, script,
          runtime>>

\* no app session is open while the ingestion functions are exercised
AppNotStarted ==
    /\ qp = <<>>
    /\ session_state = <<>>
    /\ disk = <<>>
    /\ script = <<>>
    /\ runtime = <<>>

NoResult == [status |-> "pending", retriever |-> NoneRetriever, n_chunks |-> 0,
             provider |-> "", error |-> "", calls |-> <<>>]

Init ==
    /\ env \in Envs
    /\ pc = "idle"
    /\ entry = "none"
    /\ pdf_paths = <<>>
    /\ next_path = 1
    /\ docs = <<>>
    /\ chunks = <<>>
    /\ result = NoResult
    /\ calls = <<>>
    /\ index = {}
    /\ ncalls = 0
    /\ retrieved = <<>>
    /\ pages = <<>>
    /\ AppNotStarted

\* What from_documents leaves in the stores when the call returned o.
\* Pinecone.from_documents upserts into the existing index index_name and
\* Qdrant.from_documents into the collection collection_name, which live in
\* the remote service.  Chroma.from_documents(persist_directory=None) adds
\* to the collection "langchain" of an in-memory client; whether that
\* client is shared by the calls of one process depends on the chromadb
\* version, so both are possible.
StoreWrite(idx, o, call) ==
    IF o.status # "returned" \/ o.retriever = NoneRetriever
    THEN { idx }
    ELSE LET r == o.retriever
             written == { [store |-> r.store, name |-> r.name, call |-> call,
                           pos |-> i, doc |-> r.docs[i]] : i \in DOMAIN r.docs }
             others == { x \in idx : x.store # r.store \/ x.name # r.name }
         IN  IF r.store = "chroma"
             THEN { idx \cup written, others \cup written }
             ELSE { idx \cup written }

\* chunk lists a caller hands to build_vectorstore_from_chunks directly
DirectChunks ==
    SeqsUpTo({ Document(<<"x","y">>, <<"a",".","p","d","f">>, 0) }, MaxChunks)

\* a caller invokes build_contract_store(pdf_paths)
CallBuildContractStore ==
    /\ pc = "idle"
    /\ \E paths \in SeqsUpTo(Files, MaxPaths) : pdf_paths' = paths
    /\ pc' = "loop"
    /\ entry' = "build_contract_store"
    /\ next_path' = 1
    /\ docs' = <<>>
    /\ ncalls' = ncalls + 1
    /\ UNCHANGED query_vars
    /\ UNCHANGED app_vars
    /\ UNCHANGED <<env, chunks, result, calls, index>>

\* loop body for a path that fails the extension or existence check
LoopSkip ==
    /\ pc = "loop"
    /\ next_path <= Len(pdf_paths)
    /\ ~PathAccepted(pdf_paths[next_path])
    /\ next_path' = next_path + 1
    /\ UNCHANGED query_vars
    /\ UNCHANGED app_vars
    /\ UNCHANGED <<env, pc, entry, pdf_paths, docs, chunks, result, calls,
                   index, ncalls>>

\* the optional archive upload of the loop body: the calls it makes.  Any
\* exception of open/read/upload_bytes is caught and printed.
UploadCalls(e) ==
    IF s3_enabled(e) THEN { <<"open">>, <<"open", "put_object">> } ELSE { <<>> }

\* variant: an archive write that fails before the put ends the call
LoopAccept_UploadAborts ==
    /\ pc = "loop"
    /\ next_path <= Len(pdf_paths)
    /\ PathAccepted(pdf_paths[next_path])
    /\ LET f == pdf_paths[next_path]
       IN  \E up \in UploadCalls(env) :
             IF up = <<"open">>
             THEN /\ pc' = "done"
                  /\ calls' = calls \o up
                  /\ result' = Raised("ArchiveWriteFailure", calls')
                  /\ UNCHANGED <<docs, next_path>>
             ELSE IF f.parses
             THEN /\ docs' = docs \o LoaderLoad(f)
                  /\ calls' = calls \o up \o <<"load">>
                  /\ next_path' = next_path + 1
                  /\ UNCHANGED <<pc, result>>
             ELSE /\ pc' = "done"
                  /\ calls' = calls \o up \o <<"load">>
                  /\ result' = Raised("ExtractionFailure", calls')
                  /\ UNCHANGED <<docs, next_path>>
    /\ UNCHANGED query_vars
    /\ UNCHANGED app_vars
    /\ UNCHANGED <<env, entry, pdf_paths, chunks, index, ncalls>>

\* loop body for an accepted path: archive upload, then PyPDFLoader.load()
\* variant: the file is archived after its text has been extracted
LoopAccept_LoadFirst ==
    /\ pc = "loop"
    /\ next_path <= Len(pdf_paths)
    /\ PathAccepted(pdf_paths[next_path])
    /\ LET f == pdf_paths[next_path]
       IN  \E up \in UploadCalls(env) :
             IF f.parses
             THEN /\ docs' = docs \o LoaderLoad(f)
                  /\ calls' = calls \o <<"load">> \o up
                  /\ next_path' = next_path + 1
                  /\ UNCHANGED <<pc, result>>
             ELSE /\ pc' = "done"
                  /\ calls' = calls \o <<"load">>
                  /\ result' = Raised("ExtractionFailure", calls')
                  /\ UNCHANGED <<docs, next_path>>
    /\ UNCHANGED query_vars
    /\ UNCHANGED app_vars
    /\ UNCHANGED <<env, entry, pdf_paths, chunks, index, ncalls>>

LoopAccept ==
    /\ pc = "loop"
    /\ next_path <= Len(pdf_paths)
    /\ PathAccepted(pdf_paths[next_path])
    /\ LET f == pdf_paths[next_path]
       IN  \E up \in UploadCalls(env) :
             IF f.parses
             THEN /\ docs' = docs \o LoaderLoad(f)
                  /\ calls' = calls \o up \o <<"load">>
                  /\ next_path' = next_path + 1
                  /\ UNCHANGED <<pc, result>>
             ELSE /\ pc' = "done"
                  /\ calls' = calls \o up \o <<"load">>
                  /\ result' = Raised("ExtractionFailure", calls')
                  /\ UNCHANGED <<docs, next_path>>
    /\ UNCHANGED query_vars
    /\ UNCHANGED app_vars
    /\ UNCHANGED <<env, entry, pdf_paths, chunks, index, ncalls>>

\* variant: the sentinel carries the label of the local store
ReturnNoDocs_ChromaLabel ==
    /\ pc = "loop"
    /\ next_path > Len(pdf_paths)
    /\ docs = <<>>
    /\ pc' = "done"
    /\ result' = Returned(NoneRetriever, 0, "chroma", calls)
    /\ UNCHANGED query_vars
    /\ UNCHANGED app_vars
    /\ UNCHANGED <<env, entry, pdf_paths, next_path, docs, chunks, calls,
                   index, ncalls>>

\* if not docs: return None, 0, "none"
ReturnNoDocs ==
    /\ pc = "loop"
    /\ next_path > Len(pdf_paths)
    /\ docs = <<>>
    /\ pc' = "done"
    /\ result' = Returned(NoneRetriever, 0, "none", calls)
    /\ UNCHANGED query_vars
    /\ UNCHANGED app_vars
    /\ UNCHANGED <<env, entry, pdf_paths, next_path, docs, chunks, calls,
                   index, ncalls>>

\* variant: the count returned is the number of pages
SplitAndBuild_CountsPages ==
    /\ pc = "loop"
    /\ next_path > Len(pdf_paths)
    /\ docs # <<>>
    /\ chunks' = split_documents(docs)
    /\ \E o \in build_vectorstore_from_chunks(chunks', env) :
         /\ calls' = calls \o o.calls
         /\ result' = [o EXCEPT !.calls = calls',
                                !.n_chunks = IF o.status = "returned"
                                             THEN Len(docs) ELSE 0]
         /\ index' \in StoreWrite(index, o, ncalls)
    /\ pc' = "done"
    /\ UNCHANGED query_vars
    /\ UNCHANGED app_vars
    /\ UNCHANGED <<env, entry, pdf_paths, next_path, docs, ncalls>>

\* split the pages, build the index and return what it returns
SplitAndBuild ==
    /\ pc = "loop"
    /\ next_path > Len(pdf_paths)
    /\ docs # <<>>
    /\ chunks' = split_documents(docs)
    /\ \E o \in build_vectorstore_from_chunks(chunks', env) :
         /\ calls' = calls \o o.calls
         /\ result' = [o EXCEPT !.calls = calls']
         /\ index' \in StoreWrite(index, o, ncalls)
    /\ pc' = "done"
    /\ UNCHANGED query_vars
    /\ UNCHANGED app_vars
    /\ UNCHANGED <<env, entry, pdf_paths, next_path, docs, ncalls>>

\* a caller invokes build_vectorstore_from_chunks(chunks) directly
CallBuildVectorstore ==
    /\ pc = "idle"
    /\ \E cs \in DirectChunks :
         /\ chunks' = cs
         /\ \E o \in build_vectorstore_from_chunks(cs, env) :
              /\ calls' = o.calls
              /\ result' = o
              /\ index' \in StoreWrite(index, o, ncalls + 1)
    /\ pc' = "done"
    /\ entry' = "build_vectorstore_from_chunks"
    /\ ncalls' = ncalls + 1
    /\ UNCHANGED query_vars
    /\ UNCHANGED app_vars
    /\ UNCHANGED <<env, pdf_paths, next_path, docs>>

Next ==
    \/ CallBuildContractStore
    \/ LoopSkip
    \/ LoopAccept
    \/ ReturnNoDocs
    \/ SplitAndBuild
    \/ CallBuildVectorstore

\* Calls made with no archive bucket configured: every provider setting.
InitNoArchive == Init /\ ~s3_enabled(env)

Spec == InitNoArchive /\ [][Next]_vars

\* Calls made with the archive bucket configured: the provider settings in
\* their plain spelling.
ArchiveEnvs ==
    { e \in Envs :
        /\ s3_enabled(e)
        /\ e.VECTOR_DB_PROVIDER
             \in {EnvUnset, EnvStr(StrPinecone), EnvStr(StrQdrant), EnvStr(StrChroma)}
        /\ e.PINECONE_API_KEY \in FlagValues /\ e.PINECONE_ENV = e.PINECONE_API_KEY
        /\ e.QDRANT_URL \in FlagValues
        /\ e.QDRANT_API_KEY = EnvUnset /\ e.QDRANT_COLLECTION = EnvUnset }

InitArchive == Init /\ env \in ArchiveEnvs

SpecArchive == InitArchive /\ [][Next]_vars

\* Calls made with and without the archive bucket.
IngestEnvs ==
    ArchiveEnvs \cup { [e EXCEPT !.S3_BUCKET = EnvUnset] : e \in ArchiveEnvs }

InitIngest == Init /\ env \in IngestEnvs

SpecIngest == InitIngest /\ [][Next]_vars

\* ------------------------------------------------- several calls in a row
\* the call has returned or raised; the process goes on to its next call
ReturnToCaller ==
    /\ pc = "done"
    /\ ncalls < MaxCalls
    /\ pc' = "idle"
    /\ entry' = "none"
    /\ pdf_paths' = <<>>
    /\ next_path' = 1
    /\ docs' = <<>>
    /\ chunks' = <<>>
    /\ result' = NoResult
    /\ calls' = <<>>
    /\ UNCHANGED query_vars
    /\ UNCHANGED app_vars
    /\ UNCHANGED <<env, index, ncalls>>

\* environments of the runs with several calls: the embedding service is
\* configured, no archive, one spelling per provider
RepeatEnvs ==
    { e \in Envs :
        /\ e.VECTOR_DB_PROVIDER \in {EnvStr(StrPinecone), EnvStr(StrQdrant), EnvStr(StrChroma)}
        /\ e.PINECONE_API_KEY \in FlagValues /\ e.PINECONE_ENV = e.PINECONE_API_KEY
        /\ e.QDRANT_URL \in FlagValues
        /\ e.QDRANT_API_KEY = EnvUnset /\ e.QDRANT_COLLECTION = EnvUnset
        /\ e.OPENAI_API_KEY # EnvUnset /\ e.S3_BUCKET = EnvUnset }

InitRepeat == Init /\ env \in RepeatEnvs

NextRepeat == Next \/ ReturnToCaller

SpecRepeat == InitRepeat /\ [][NextRepeat]_vars

\* =============================================================== claims
\* Vocabulary of the claims, stated on the raw environment and result and
\* not through the operators that model the code.
Missing(v) == ~v.isset \/ v.value = <<>>
Present(v) == v.isset /\ v.value # <<>>

SameLetter(c, d) ==
    c = d \/ \E i \in DOMAIN UpperChars : {c, d} = {UpperChars[i], LowerChars[i]}

EqIgnoreCase(a, b) ==
    Len(a) = Len(b) /\ \A i \in DOMAIN a : SameLetter(a[i], b[i])

Called(op) == \E i \in DOMAIN calls : calls[i] = op

\* the call has ended and build_vectorstore_from_chunks ran in it
BuildDone == pc = "done" /\ Called("OpenAIEmbeddings")

ReturnedTuple == result.status = "returned"
IsNoneTuple ==
    result.retriever = NoneRetriever /\ result.n_chunks = 0 /\ result.provider = "none"

ProviderIs(name) ==
    env.VECTOR_DB_PROVIDER.isset /\ EqIgnoreCase(env.VECTOR_DB_PROVIDER.value, name)

\* C1: whenever the index-building step is handed an empty chunk list and
\* returns, what it returns is exactly (None, 0, "none").
C1_EmptyChunksGiveNoneTuple ==
    (BuildDone /\ chunks = <<>> /\ ReturnedTuple) => IsNoneTuple

\* C2: with provider pinecone and the Pinecone API key and/or environment
\* missing, the label returned is "chroma (fallback)", the retriever is not
\* None when chunks were given, no Pinecone call is made and no exception of
\* the Pinecone client leaves the call.
C2_PineconeFallback ==
    (BuildDone /\ env.VECTOR_DB_PROVIDER = EnvStr(StrPinecone)
       /\ (Missing(env.PINECONE_API_KEY) \/ Missing(env.PINECONE_ENV)))
    => /\ ReturnedTuple =>
            /\ result.provider = "chroma (fallback)"
            /\ result.n_chunks > 0 => result.retriever # NoneRetriever
       /\ result.error # "StoreFailure:pinecone"
       /\ ~Called("pinecone.init") /\ ~Called("pinecone")

C2_Witness ==
    /\ BuildDone /\ env.VECTOR_DB_PROVIDER = EnvStr(StrPinecone)
    /\ Present(env.PINECONE_API_KEY) /\ Missing(env.PINECONE_ENV)
    /\ ReturnedTuple /\ result.n_chunks > 0

\* C3: with provider qdrant and the Qdrant URL missing, the local index is
\* built, the retriever is not None and the label is "chroma (fallback)",
\* whatever the Qdrant API key and collection name are; no Qdrant call is
\* made and no exception of the Qdrant client leaves the call.
C3_QdrantFallback ==
    (BuildDone /\ env.VECTOR_DB_PROVIDER = EnvStr(StrQdrant)
       /\ Missing(env.QDRANT_URL))
    => /\ ReturnedTuple =>
            /\ result.provider = "chroma (fallback)"
            /\ result.retriever # NoneRetriever
            /\ result.retriever.store = "chroma"
       /\ result.error # "StoreFailure:qdrant"
       /\ ~Called("QdrantClient") /\ ~Called("qdrant")

C3_Witness ==
    /\ BuildDone /\ env.VECTOR_DB_PROVIDER = EnvStr(StrQdrant)
    /\ Missing(env.QDRANT_URL)
    /\ Present(env.QDRANT_API_KEY) /\ Present(env.QDRANT_COLLECTION)
    /\ ReturnedTuple /\ result.n_chunks > 0

ProviderUnrecognized ==
    /\ Present(env.VECTOR_DB_PROVIDER)
    /\ ~ProviderIs(StrPinecone) /\ ~ProviderIs(StrQdrant) /\ ~ProviderIs(StrChroma)

\* what a caller sees of an outcome: the tuple, or the exception
Seen(o) == <<o.status, o.retriever, o.n_chunks, o.provider, o.error>>

C6_UnsetMeansChroma ==
    (BuildDone /\ ~env.VECTOR_DB_PROVIDER.isset /\ chunks # <<>> /\ ReturnedTuple)
    => result.provider = "chroma"

\* C7: when chroma is selected, the local index is built and the label is
\* exactly "chroma", never "chroma (fallback)", whatever the Pinecone and
\* Qdrant configuration.
C7_ChromaPlain ==
    (BuildDone /\ ProviderIs(StrChroma))
    => /\ ReturnedTuple =>
            /\ result.provider = "chroma"
            /\ result.retriever.store = "chroma"
       /\ ~Called("pinecone.init") /\ ~Called("pinecone")
       /\ ~Called("QdrantClient") /\ ~Called("qdrant")

C7_Witness ==
    /\ BuildDone /\ env.VECTOR_DB_PROVIDER = EnvStr(StrChroma) /\ ReturnedTuple
    /\ Present(env.PINECONE_API_KEY) /\ Present(env.PINECONE_ENV)
    /\ Missing(env.QDRANT_URL)
    /\ result.n_chunks > 0

\* C8: with pinecone selected and its API key and environment present the
\* label is "pinecone", with qdrant selected and its URL present the label
\* is "qdrant"; the retriever is over that store and the local index is
\* not built.
C8_LabelNamesBackend ==
    (BuildDone /\ ReturnedTuple)
    => /\ ( env.VECTOR_DB_PROVIDER = EnvStr(StrPinecone)
            /\ Present(env.PINECONE_API_KEY) /\ Present(env.PINECONE_ENV) )
          => /\ result.provider = "pinecone"
             /\ result.retriever.store = "pinecone"
             /\ ~Called("chroma")
       /\ ( env.VECTOR_DB_PROVIDER = EnvStr(StrQdrant) /\ Present(env.QDRANT_URL) )
          => /\ result.provider = "qdrant"
             /\ result.retriever.store = "qdrant"
             /\ ~Called("chroma")

C8_Witness ==
    /\ BuildDone /\ ReturnedTuple
    /\ env.VECTOR_DB_PROVIDER = EnvStr(StrQdrant) /\ Present(env.QDRANT_URL)
    /\ Missing(env.QDRANT_API_KEY)
    /\ result.provider = "qdrant" /\ result.n_chunks > 0

ProviderLabels == {"pinecone", "qdrant", "chroma", "chroma (fallback)", "none"}

\* C9: the label build_contract_store returns is one of pinecone, qdrant,
\* chroma, chroma (fallback), none, and it is none exactly when the
\* retriever is None.
C9_LabelClosedSet ==
    (pc = "done" /\ entry = "build_contract_store" /\ ReturnedTuple)
    => /\ result.provider \in ProviderLabels
       /\ result.provider = "none" <=> result.retriever = NoneRetriever

C9_Witness ==
    /\ pc = "done" /\ entry = "build_contract_store" /\ ReturnedTuple
    /\ result.provider = "none" /\ result.retriever = NoneRetriever
    /\ pdf_paths # <<>>

\* the extension test of the claims: the last four characters are ".pdf"
\* in some letter case
HasPdfExtension(path) ==
    /\ Len(path) >= Len(PdfSuffix)
    /\ EqIgnoreCase(SubSeq(path, Len(path) - Len(PdfSuffix) + 1, Len(path)), PdfSuffix)

NoValidPath ==
    \A i \in DOMAIN pdf_paths :
        ~HasPdfExtension(pdf_paths[i].path) \/ ~pdf_paths[i].exists

\* C10: a call of build_contract_store in which no path is valid returns
\* exactly (None, 0, "none"), raises nothing and makes no upload, no
\* embedding call and no vector-store call.
C10_NoValidPaths ==
    (entry = "build_contract_store" /\ NoValidPath)
    => /\ calls = <<>>
       /\ docs = <<>>
       /\ pc = "done" => (ReturnedTuple /\ IsNoneTuple)

C10_Witness ==
    /\ pc = "done" /\ entry = "build_contract_store" /\ NoValidPath
    /\ Len(pdf_paths) = 2
    /\ pdf_paths[1].exists /\ ~pdf_paths[2].exists
    /\ Present(env.S3_BUCKET)
    /\ ReturnedTuple /\ IsNoneTuple

\* a path the claims call valid: it has the extension and the file exists
ValidPath(f) == HasPdfExtension(f.path) /\ f.exists

\* the page records of a file, in page order
PageRecords(f) ==
    [i \in DOMAIN f.pages |->
        [page_content |-> f.pages[i], source |-> f.path, page |-> i - 1]]

RECURSIVE ValidPageRecords(_)
\* the page records of the valid paths of a list, in the order of the list
ValidPageRecords(paths) ==
    IF paths = <<>> THEN <<>>
    ELSE (IF ValidPath(Head(paths)) THEN PageRecords(Head(paths)) ELSE <<>>)
         \o ValidPageRecords(Tail(paths))

\* C11: the pages build_contract_store has loaded are the pages of the
\* valid paths it has passed (extension in any letter case, file exists),
\* in the order of the paths and in page order within a file; a rejected
\* path raises nothing.
C11_LoadedPagesValidInOrder ==
    entry = "build_contract_store"
    => /\ docs = ValidPageRecords(SubSeq(pdf_paths, 1, next_path - 1))
       /\ result.status = "raised" /\ next_path <= Len(pdf_paths)
            => ValidPath(pdf_paths[next_path])

C11_Witness ==
    /\ pc = "done" /\ entry = "build_contract_store" /\ ReturnedTuple
    /\ Len(pdf_paths) = 2
    /\ ~ValidPath(pdf_paths[1])
    /\ pdf_paths[2].path = <<"B",".","P","D","F">>
    /\ Len(docs) = 1 /\ docs[1].source = pdf_paths[2].path

\* C12: build_contract_store never ends with the extraction failure of a
\* file: the failure is caught and the other files are processed.
C12_ExtractionFailureCaught ==
    (pc = "done" /\ entry = "build_contract_store")
    => result.error # "ExtractionFailure"

\* what the caller can tell of an outcome: whether a retriever came back,
\* the chunk count and the label, or the exception
Observable(o) ==
    <<o.status, o.retriever # NoneRetriever, o.n_chunks, o.provider, o.error>>

\* the outcomes of ingesting a path list when no archive is configured and
\* so no archive write takes place
OutcomesWithoutArchive(paths, e) ==
    IF \E i \in DOMAIN paths : ValidPath(paths[i]) /\ ~paths[i].parses
    THEN { Observable(Raised("ExtractionFailure", <<>>)) }
    ELSE IF ValidPageRecords(paths) = <<>>
    THEN { Observable(Returned(NoneRetriever, 0, "none", <<>>)) }
    ELSE { Observable(o) :
             o \in build_vectorstore_from_chunks(
                       split_documents(ValidPageRecords(paths)),
                       [e EXCEPT !.S3_BUCKET = EnvUnset]) }

\* an archive write was given up before the put: the file was opened for
\* the upload and the loader came next
ArchiveWriteFailed ==
    \E i \in DOMAIN calls :
        calls[i] = "open" /\ (i = Len(calls) \/ calls[i + 1] # "put_object")

\* C13: whatever the archive writes of a build_contract_store call do
\* (succeed, fail, or not take place), the call ends with an outcome it
\* also has when archiving is disabled, and never with an archive error.
C13_ArchiveWriteNeverAborts ==
    (pc = "done" /\ entry = "build_contract_store")
    => /\ Observable(result) \in OutcomesWithoutArchive(pdf_paths, env)
       /\ result.error # "ArchiveWriteFailure"

C13_Witness ==
    /\ pc = "done" /\ entry = "build_contract_store"
    /\ Present(env.S3_BUCKET) /\ ArchiveWriteFailed
    /\ ReturnedTuple /\ result.retriever # NoneRetriever /\ result.n_chunks > 0

\* the embedding service failed in this call: its client could not be
\* constructed, or an embedding request failed
EmbeddingFailed ==
    \/ Called("embed")
    \/ Called("OpenAIEmbeddings") /\ Missing(env.OPENAI_API_KEY)

\* C14: a call in which the embedding service failed ends with that
\* failure as its exception, in every provider branch; no tuple, and in
\* particular no fallback retriever, is returned.
C14_EmbeddingFailurePropagates ==
    (pc = "done" /\ EmbeddingFailed)
    => /\ result.status = "raised"
       /\ result.error = "EmbeddingFailure"
       /\ result.retriever = NoneRetriever /\ result.provider = ""

C14_Witness ==
    /\ pc = "done" /\ entry = "build_contract_store" /\ Called("embed")
    /\ env.VECTOR_DB_PROVIDER = EnvStr(StrQdrant) /\ Missing(env.QDRANT_URL)
    /\ Called("chroma")
    /\ result.status = "raised"

\* the stored chunks a retriever searches: those of its index or collection
Retrievable(r) == { x \in index : x.store = r.store /\ x.name = r.name }

\* C15: the retriever a build_contract_store call returns over a Pinecone
\* index or a Qdrant collection can retrieve only chunks that this call
\* stored, never chunks of an earlier call.
C15_FreshIndexPerCall ==
    (pc = "done" /\ entry = "build_contract_store" /\ ReturnedTuple
       /\ result.retriever.store \in {"pinecone", "qdrant"})
    => \A x \in Retrievable(result.retriever) : x.call = ncalls

\* C16: when a retriever is returned, the count returned with it is the
\* number of chunks handed to the store, which is the number of chunks
\* the retriever is over and the number this call stored; it is not the
\* number of pages or of files.
C16_CountIsNumberOfChunks ==
    (pc = "done" /\ ReturnedTuple /\ result.retriever # NoneRetriever)
    => /\ result.n_chunks = Len(chunks)
       /\ result.n_chunks = Len(result.retriever.docs)
       /\ result.n_chunks = Cardinality({ x \in index : x.call = ncalls })

C16_Witness ==
    /\ pc = "done" /\ entry = "build_contract_store" /\ ReturnedTuple
    /\ result.retriever # NoneRetriever
    /\ \A i \in DOMAIN pdf_paths : ValidPath(pdf_paths[i])
    /\ result.n_chunks > 0
    /\ result.n_chunks # Len(docs) /\ result.n_chunks # Len(pdf_paths)

\* ------------------------------------------------ contracts of real length
\* Page texts long enough for chunk_size and chunk_overlap to matter.  The
\* letters at positions 3q, 3q+1, 3q+2 are the three digits of q to the
\* base 26, so a piece of a hundred characters or more is found at one
\* place of one page only.
Alphabet ==
    << "a","b","c","d","e","f","g","h","i","j","k","l","m",
       "n","o","p","q","r","s","t","u","v","w","x","y","z" >>

Letter(i) ==
    LET q == i \div 3
    IN  Alphabet[ ( CASE i % 3 = 0 -> q % 26
                      [] i % 3 = 1 -> (q \div 26) % 26
                      [] OTHER     -> (q \div 676) % 26 ) + 1 ]

\* n letters without any separator
Run(off, n) == [i \in 1..n |-> Letter(off + i)]

\* n characters, every w-th one a blank
Words(off, n, w) == [i \in 1..n |-> IF i % w = 0 THEN " " ELSE Letter(off + i)]

\* words, with one paragraph break "\n\n" at positions at, at+1
Paragraphs(off, n, w, at) ==
    [i \in 1..n |-> IF i \in {at, at + 1} THEN "\n" ELSE Words(off, n, w)[i]]

LongFiles ==
    { File(<<"s",".","p","d","f">>, TRUE, TRUE,
           << Run(0, 1200), Run(3000, 500), <<>> >>),
      File(<<"t",".","p","d","f">>, TRUE, TRUE, << Run(9000, 300) >>),
      File(<<"w",".","p","d","f">>, TRUE, TRUE, << Words(5000, 1250, 50) >>),
      File(<<"g",".","p","d","f">>, TRUE, TRUE, << Words(7000, 1100, 200) >>),
      File(<<"p",".","p","d","f">>, TRUE, TRUE, << Paragraphs(11000, 1500, 60, 1300) >>),
      File(<<"n",".","t","x","t">>, TRUE, TRUE, << Run(13000, 40) >>) }

\* build_contract_store(pdf_paths) called with contracts of real length
CallBuildContractStoreLong ==
    /\ pc = "idle"
    /\ \E paths \in SeqsUpTo(LongFiles, MaxPaths) : pdf_paths' = paths
    /\ pc' = "loop"
    /\ entry' = "build_contract_store"
    /\ next_path' = 1
    /\ docs' = <<>>
    /\ ncalls' = ncalls + 1
    /\ UNCHANGED query_vars
    /\ UNCHANGED app_vars
    /\ UNCHANGED <<env, chunks, result, calls, index>>

\* local Chroma with an OpenAI key, no S3 archive
SplitEnvs ==
    { e \in Envs :
        /\ e.VECTOR_DB_PROVIDER = EnvStr(StrChroma)
        /\ e.PINECONE_API_KEY = EnvUnset /\ e.PINECONE_ENV = EnvUnset
        /\ e.QDRANT_URL = EnvUnset
        /\ e.QDRANT_API_KEY = EnvUnset /\ e.QDRANT_COLLECTION = EnvUnset
        /\ e.OPENAI_API_KEY # EnvUnset /\ e.S3_BUCKET = EnvUnset }

InitSplit == Init /\ env \in SplitEnvs

NextSplit ==
    \/ CallBuildContractStoreLong
    \/ LoopSkip
    \/ LoopAccept
    \/ ReturnNoDocs
    \/ SplitAndBuild

SpecSplit == InitSplit /\ [][NextSplit]_vars

\* ----------------------------------------------------- claims on chunking
\* build_contract_store has split the loaded pages into chunks
ChunksMade == BuildDone /\ entry = "build_contract_store"

\* the places of text t where text c stands
SliceStarts(c, t) ==
    { a \in 1..(Len(t) - Len(c) + 1) : \A j \in DOMAIN c : t[a + j - 1] = c[j] }

IsSlice(c, t) == SliceStarts(c, t) # {}

\* the chunks that carry the source and page number of page d
ChunksOfPage(d) ==
    { k \in DOMAIN chunks : chunks[k].source = d.source /\ chunks[k].page = d.page }

\* the positions of the text of page d that stand in a chunk of that page
Covered(d) ==
    UNION { UNION { a..(a + Len(chunks[k].page_content) - 1) :
                      a \in SliceStarts(chunks[k].page_content, d.page_content) } :
            k \in ChunksOfPage(d) }

Solid(text) == { i \in DOMAIN text : text[i] \notin Whitespace }

\* C17 as stated: every chunk is at most chunk_size characters long unless
\* it is a whole page text that is longer, and every character of every
\* loaded page stands in a chunk of that page.
C17_BoundedAndNothingLost ==
    ChunksMade
    => /\ \A k \in DOMAIN chunks :
            \/ Len(chunks[k].page_content) <= chunk_size
            \/ \E i \in DOMAIN docs : chunks[k].page_content = docs[i].page_content
       /\ \A i \in DOMAIN docs : DOMAIN docs[i].page_content \subseteq Covered(docs[i])

\* C17 amended: every chunk is at most chunk_size characters long, with no
\* exception, and every character of every loaded page that is not
\* whitespace stands in a chunk of that page; whitespace at the two ends of
\* a chunk is not kept.
C17_BoundedAndNoSolidTextLost ==
    ChunksMade
    => /\ \A k \in DOMAIN chunks :
            /\ Len(chunks[k].page_content) \in 1..chunk_size
            /\ chunks[k].page_content[1] \notin Whitespace
            /\ chunks[k].page_content[Len(chunks[k].page_content)] \notin Whitespace
       /\ \A i \in DOMAIN docs : Solid(docs[i].page_content) \subseteq Covered(docs[i])

C17_Witness ==
    /\ ChunksMade
    /\ \E i \in DOMAIN docs :
         /\ Len(docs[i].page_content) > chunk_size
         /\ Cardinality(ChunksOfPage(docs[i])) >= 2
         /\ Solid(docs[i].page_content) # DOMAIN docs[i].page_content
         /\ ~(DOMAIN docs[i].page_content \subseteq Covered(docs[i]))

\* C18: every chunk is a piece of the text of one page of the file its
\* source names, so no chunk holds text of two files; the first chunk after
\* a change of source starts at the first character of a page of the new
\* file that is not whitespace, so no overlap comes from the file before.
C18_NoChunkAcrossSources ==
    ChunksMade
    => \A k \in DOMAIN chunks :
         /\ \E i \in DOMAIN docs :
              /\ docs[i].source = chunks[k].source
              /\ IsSlice(chunks[k].page_content, docs[i].page_content)
         /\ (k > 1 /\ chunks[k - 1].source # chunks[k].source)
              => \E i \in DOMAIN docs :
                   /\ docs[i].source = chunks[k].source
                   /\ Solid(docs[i].page_content) # {}
                   /\ SetMin(Solid(docs[i].page_content))
                        \in SliceStarts(chunks[k].page_content, docs[i].page_content)

C18_Witness ==
    /\ ChunksMade /\ ReturnedTuple
    /\ Len(pdf_paths) = 2
    /\ pdf_paths[1].path = <<"t",".","p","d","f">>
    /\ pdf_paths[2].path = <<"s",".","p","d","f">>
    /\ Len(chunks) = 4
    /\ chunks[1].source = pdf_paths[1].path
    /\ chunks[2].source = pdf_paths[2].path
    /\ Len(chunks[1].page_content) + Len(chunks[2].page_content) > chunk_size

\* the first characters of a text, at most chunk_overlap of them
Beginning(text) ==
    SubSeq(text, 1, IF Len(text) < chunk_overlap THEN Len(text) ELSE chunk_overlap)

DistinctPaths ==
    \A i, j \in DOMAIN pdf_paths : i # j => pdf_paths[i] # pdf_paths[j]

\* chunks k and k+1 come from the text of the same page
SameRun(k) ==
    /\ k + 1 \in DOMAIN chunks
    /\ chunks[k].source = chunks[k + 1].source
    /\ chunks[k].page = chunks[k + 1].page

\* the page chunk k comes from
PageOf(k) ==
    CHOOSE d \in { docs[i] : i \in DOMAIN docs } :
        d.source = chunks[k].source /\ d.page = chunks[k].page

\* the last chunk_overlap characters of a are the first of b
Overlaps(a, b) ==
    /\ Len(a) >= chunk_overlap /\ Len(b) >= chunk_overlap
    /\ SubSeq(a, Len(a) - chunk_overlap + 1, Len(a)) = SubSeq(b, 1, chunk_overlap)

\* where chunk k starts in the text of its page
StartOf(k) == SetMin(SliceStarts(chunks[k].page_content, PageOf(k).page_content))

PageDoc(p) == Document(<<"x">>, <<"a",".","p","d","f">>, p)

\* chunk lists whose page numbers repeat, are out of order or not known
QueryChunks ==
    { << PageDoc(4) >>,
      << PageDoc(2), PageDoc(0), PageDoc(2), PageDoc(-1) >>,
      << PageDoc(6), PageDoc(0), PageDoc(3), PageDoc(3), PageDoc(-1),
         PageDoc(1), PageDoc(5) >> }

\* what the store of retriever r holds
Stored(r) == { x \in index : x.store = r.store /\ x.name = r.name }

RECURSIVE Arrangements(_, _)
\* the sequences of n different elements of S
Arrangements(S, n) ==
    IF n = 0 THEN { <<>> }
    ELSE UNION { { Append(q, x) : x \in S \ { q[i] : i \in DOMAIN q } } :
                 q \in Arrangements(S, n - 1) }

\* retriever.invoke(question): the k stored chunks nearest to the
\* question, nearest first; which they are depends on the embedding
TopK(r) ==
    LET have == Stored(r)
        n == IF Cardinality(have) < r.k THEN Cardinality(have) ELSE r.k
    IN  { [i \in DOMAIN a |-> a[i].doc] : a \in Arrangements(have, n) }

RECURSIVE Ascending(_)
\* sorted(S) for a set of integers
Ascending(S) ==
    IF S = {} THEN <<>> ELSE <<SetMin(S)>> \o Ascending(S \ {SetMin(S)})

\* variant: one entry per retrieved chunk with a page, in retrieval order
SourcePages_PerChunk(got) ==
    LET known == SelectSeq(got, LAMBDA d : d.page >= 0)
    IN  [i \in DOMAIN known |-> known[i].page + 1]

\* the source pages of an answer: the page numbers of the retrieved
\* chunks, those below 0 left out, plus 1, as a set, sorted ascending
SourcePages(got) ==
    Ascending({ got[i].page + 1 : i \in { j \in DOMAIN got : got[j].page >= 0 } })

\* a caller builds an index over chunks it has at hand
CallBuildVectorstoreForQuestions ==
    /\ pc = "idle"
    /\ \E cs \in QueryChunks :
         /\ chunks' = cs
         /\ \E o \in build_vectorstore_from_chunks(cs, env) :
              /\ calls' = o.calls
              /\ result' = o
              /\ index' \in StoreWrite(index, o, ncalls + 1)
    /\ pc' = "done"
    /\ entry' = "build_vectorstore_from_chunks"
    /\ ncalls' = ncalls + 1
    /\ UNCHANGED query_vars
    /\ UNCHANGED app_vars
    /\ UNCHANGED <<env, pdf_paths, next_path, docs>>

\* a question is asked of the retriever the call returned
AskQuestion ==
    /\ pc = "done"
    /\ result.status = "returned"
    /\ result.retriever # NoneRetriever
    /\ retrieved' \in TopK(result.retriever)
    /\ pages' = SourcePages(retrieved')
    /\ pc' = "answered"
    /\ UNCHANGED app_vars
    /\ UNCHANGED <<env, entry, pdf_paths, next_path, docs, chunks, result, calls,
                   index, ncalls>>

\* every provider setting in its plain spelling, with an OpenAI key and no
\* archive
QueryEnvs ==
    { e \in Envs :
        /\ ~s3_enabled(e)
        /\ Truthy(e.OPENAI_API_KEY)
        /\ e.VECTOR_DB_PROVIDER
             \in {EnvUnset, EnvStr(StrPinecone), EnvStr(StrQdrant), EnvStr(StrChroma)}
        /\ e.PINECONE_API_KEY \in FlagValues /\ e.PINECONE_ENV = e.PINECONE_API_KEY
        /\ e.QDRANT_URL \in FlagValues
        /\ e.QDRANT_API_KEY = EnvUnset /\ e.QDRANT_COLLECTION = EnvUnset }

InitQuery == Init /\ env \in QueryEnvs

NextQuery == CallBuildVectorstoreForQuestions \/ AskQuestion

SpecQuery == InitQuery /\ [][NextQuery]_vars

\* a question has been answered
Answered == pc = "answered"

\* C21: the source pages of an answer are strictly increasing, each is the
\* page number plus 1 of a retrieved chunk whose page number is 0 or more,
\* and each such chunk's page is listed.
C21_SourcePagesOfRetrieved ==
    Answered
    => /\ \A i \in DOMAIN pages : i > 1 => pages[i - 1] < pages[i]
       /\ \A i \in DOMAIN pages :
            \E j \in DOMAIN retrieved :
                retrieved[j].page >= 0 /\ pages[i] = retrieved[j].page + 1
       /\ \A j \in DOMAIN retrieved :
            retrieved[j].page >= 0
            => \E i \in DOMAIN pages : pages[i] = retrieved[j].page + 1
       /\ (\A j \in DOMAIN retrieved : retrieved[j].page \in {4, -1})
            => pages \in { <<>>, <<5>> }

C21_Witness ==
    /\ Answered
    /\ Len(retrieved) = 5
    /\ \E i, j \in DOMAIN retrieved :
         i < j /\ retrieved[i].page = retrieved[j].page /\ retrieved[i].page >= 0
    /\ \E i, j \in DOMAIN retrieved : i < j /\ retrieved[i].page > retrieved[j].page
    /\ \E i \in DOMAIN retrieved : retrieved[i].page < 0
    /\ Len(pages) = 3

\* C22: every retriever build_vectorstore_from_chunks returns, from
\* whichever branch, retrieves the top 5 chunks, so the chunks retrieved
\* for a question are 5 at most, and 5 when the store holds that many.
C22_RetrieverTopFive ==
    /\ (pc \in {"done", "answered"} /\ ReturnedTuple
          /\ result.retriever # NoneRetriever)
       => /\ result.retriever.k = 5
          /\ result.provider \in {"pinecone", "qdrant", "chroma", "chroma (fallback)"}
    /\ Answered
       => /\ Len(retrieved) <= 5
          /\ result.n_chunks >= 5 => Len(retrieved) = 5
          /\ \A i \in DOMAIN retrieved :
               \E j \in DOMAIN chunks : retrieved[i] = chunks[j]

C22_Witness ==
    /\ Answered
    /\ result.provider = "chroma (fallback)"
    /\ env.VECTOR_DB_PROVIDER = EnvStr(StrQdrant)
    /\ result.n_chunks = 7
    /\ Len(retrieved) = 5

\* ------------------------------------------------ claims on the archive
\* how often the call has made the external call op
Count(op) == Cardinality({ i \in DOMAIN calls : calls[i] = op })

\* the valid paths the loop has dealt with, the one whose extraction
\* failed included
ValidPathsHandled ==
    Cardinality({ i \in 1..(next_path - 1) : ValidPath(pdf_paths[i]) })
    + (IF result.status = "raised" /\ result.error = "ExtractionFailure" THEN 1 ELSE 0)

ArchiveOps == {"open", "put_object"}

\* C23: in a build_contract_store call the archive write of a file is
\* attempted right before that file's extraction, once per valid path and
\* for no other path, before any embedding or store call; without the
\* archive bucket nothing is opened or put.
C23_ArchiveBeforeExtraction ==
    entry = "build_contract_store"
    => /\ Count("load") = ValidPathsHandled
       /\ Count("open") = (IF s3_enabled(env) THEN ValidPathsHandled ELSE 0)
       /\ ~s3_enabled(env) => \A i \in DOMAIN calls : calls[i] \notin ArchiveOps
       /\ \A i \in DOMAIN calls :
            /\ calls[i] = "load" /\ s3_enabled(env)
                 => \/ i > 1 /\ calls[i - 1] = "open"
                    \/ i > 2 /\ calls[i - 1] = "put_object" /\ calls[i - 2] = "open"
            /\ calls[i] = "put_object" => i > 1 /\ calls[i - 1] = "open"
            /\ calls[i] = "open" => i = 1 \/ calls[i - 1] = "load"
            /\ calls[i] \notin (ArchiveOps \cup {"load"})
                 => \A j \in DOMAIN calls :
                      j > i => calls[j] \notin (ArchiveOps \cup {"load"})

C23_Witness ==
    /\ pc = "done" /\ entry = "build_contract_store" /\ ReturnedTuple
    /\ s3_enabled(env)
    /\ Len(pdf_paths) = 2
    /\ ~ValidPath(pdf_paths[1]) /\ pdf_paths[1].exists
    /\ ValidPath(pdf_paths[2])
    /\ Len(calls) > 3
    /\ SubSeq(calls, 1, 3) = <<"open", "put_object", "load">>
    /\ Called("OpenAIEmbeddings")

\* ------------------------------------------------------- the app's route
\* Python's None
None == "None"

\* st.query_params is a mapping from the keys present in the URL to strings
\* qp.get(k)
Get(q, k) == IF k \in DOMAIN q THEN q[k] ELSE None

\* qp[k] = v
Put(q, k, v) == [x \in DOMAIN q \cup {k} |-> IF x = k THEN v ELSE q[x]]

\* del qp[k]
Del(q, k) == [x \in DOMAIN q \ {k} |-> q[x]]

\* set_route(page, scope, partner, section, replace): the query parameters
\* it leaves and whether it ends in st.rerun()
set_route(q, a) ==
    LET q0 == IF a.replace THEN <<>> ELSE q
        c0 == a.replace
        s1 == a.page # None /\ Get(q0, "page") # a.page
        q1 == IF s1 THEN Put(q0, "page", a.page) ELSE q0
        s2 == a.scope # None /\ Get(q1, "scope") # a.scope
        q2 == IF s2 THEN Put(q1, "scope", a.scope) ELSE q1
        d3 == a.partner # None /\ a.partner \in {"", None}
                 /\ "partner" \in DOMAIN q2
        s3 == a.partner # None /\ a.partner \notin {"", None}
                 /\ Get(q2, "partner") # a.partner
        q3 == IF d3 THEN Del(q2, "partner")
              ELSE IF s3 THEN Put(q2, "partner", a.partner) ELSE q2
        s4 == a.section # None /\ Get(q3, "section") # a.section
        q4 == IF s4 THEN Put(q3, "section", a.section) ELSE q3
    IN  [qp |-> q4, rerun |-> c0 \/ s1 \/ s2 \/ d3 \/ s3 \/ s4]

\* the arguments of a call; an argument left out is None
RouteArgs(page, scope, partner, section) ==
    [page |-> page, scope |-> scope, partner |-> partner,
     section |-> section, replace |-> FALSE]

\* query strings a browser may hold
PageValues == {"Me", "Partnerships", "Settings"}
ScopeValues == {"active", "prospective"}
PartnerValues == {"coke", "acme", "ghost"}
SectionValues == {"overview", "tasks"}

ValuesOf(k) ==
    CASE k = "page" -> PageValues
      [] k = "scope" -> ScopeValues
      [] k = "partner" -> PartnerValues
      [] k = "section" -> SectionValues

Urls ==
    UNION { { q \in [D -> PageValues \cup ScopeValues \cup PartnerValues
                            \cup SectionValues] :
                \A k \in D : q[k] \in ValuesOf(k) } : D \in SUBSET {"page", "scope", "partner", "section"} }

\* a script run that has not rendered anything
NoScript == [handler |-> "", rerun |-> FALSE, shown |-> "", error |-> ""]

\* the ingestion functions are not running while the app is exercised
NotIngesting ==
    /\ env = CHOOSE e \in QueryEnvs : TRUE
    /\ pc = "idle"
    /\ entry = "none"
    /\ pdf_paths = <<>>
    /\ next_path = 1
    /\ docs = <<>>
    /\ chunks = <<>>
    /\ result = NoResult
    /\ calls = <<>>
    /\ index = {}
    /\ ncalls = 0
    /\ retrieved = <<>>
    /\ pages = <<>>

ingest_vars == <<env, pc, entry, pdf_paths, next_path, docs, chunks, result,
                 calls, index, ncalls, retrieved, pages>>

\* set_route called on its own, as a function of the query parameters
CallSetRoute(a) ==
    LET r == set_route(qp, a)
    IN  /\ qp' = r.qp
        /\ script' = [NoScript EXCEPT !.handler = "set_route",
                                      !.rerun = r.rerun]
        /\ UNCHANGED <<session_state, disk, runtime>>
        /\ UNCHANGED ingest_vars

InitRoute ==
    /\ NotIngesting
    /\ qp \in Urls
    /\ session_state = <<>>
    /\ disk = <<>>
    /\ script = NoScript
    /\ runtime = <<>>

\* calls of set_route with every combination of given and omitted arguments
NextRoute ==
    \E a \in [page : {None, "Me", "Partnerships"}, scope : {None, "active"},
              partner : {None, "", "coke"}, section : {None, "overview"},
              replace : BOOLEAN] : CallSetRoute(a)

SpecRoute == InitRoute /\ [][NextRoute]_vars

\* ------------------------------------------------------ claims on routing
\* C25: set_route issues a rerun only on a real change of the query
\* parameters: a call that leaves every query parameter with the value it
\* had, a replace=True call on empty parameters included, issues no rerun.
C25_RerunOnlyOnChange ==
    [][script'.handler = "set_route" /\ qp' = qp => ~script'.rerun]_vars

\* ------------------------------------------------------------- the app
\* PARTNERS, by scope (ids only)
PARTNERS == [active |-> <<"coke", "zippay">>,
             prospective |-> <<"acme", "stellar">>]

\* _partner_by_id(pid): the scope of the partner, None when there is none
\* with that id
_partner_by_id(pid) ==
    IF \E i \in DOMAIN PARTNERS.active : PARTNERS.active[i] = pid
    THEN "active"
    ELSE IF \E i \in DOMAIN PARTNERS.prospective :
                PARTNERS.prospective[i] = pid
         THEN "prospective"
         ELSE None

\* A catalog maps each category to its assets; an asset is kept by its
\* name.  DEFAULT_ASSETS is cut down to its two one-asset categories.
DEFAULT_ASSETS ==
    [coke |-> [Radio |-> {"30-second play-by-play"},
               Television |-> {"Broadcast feature segment"}],
     zippay |-> [Radio |-> {}, Television |-> {}]]

\* catalogs a user may upload in Settings: one that adds a category and
\* drops one, one that adds an asset to a category
Uploads ==
    { [Radio |-> {"30-second play-by-play"}, Podcast |-> {"Host read"}],
      [Radio |-> {"30-second play-by-play", "Drive-time spot"},
       Television |-> {"Broadcast feature segment"}] }

\* the partners whose pages the user opens
OpenedPartners == {"coke", "acme"}

\* profile roles: the choices of the Role selectbox
RoleAE == <<"A", "E">>
RoleAdmin == <<"A", "d", "m", "i", "n">>
RoleBrand == <<"B", "r", "a", "n", "d">>
RoleAgency == <<"A", "g", "e", "n", "c", "y">>

\* the roles sessions start with (USER_ROLE of the secrets, which may be
\* spelled in lower case), and the ones picked in the profile form
StartRoles == {Lower(RoleAdmin), RoleBrand}
PickedRoles == {RoleAE, RoleAgency}

\* st.session_state before the first render of a session; a bucket that is
\* not there yet is an empty mapping
NewSession(role) ==
    [profile |-> [role |-> role],
     assets |-> <<>>,
     tasks |-> <<>>,
     asset_sel |-> <<>>,
     new_task_for |-> None,
     show_new_task_modal |-> FALSE,
     edit_task_id |-> None]

\* load_json(kind, pid, default): the local file when there is one
load_json(d, kind, pid, default) ==
    IF pid \in DOMAIN d[kind] THEN d[kind][pid] ELSE default

\* save_json(kind, pid, data)
save_json(d, kind, pid, data) ==
    [d EXCEPT ![kind] = Put(d[kind], pid, data)]

\* the default of the load is DEFAULT_ASSETS.get(pid, {})
load_assets_for(ss, d, pid) ==
    IF pid \in DOMAIN ss.assets
    THEN ss
    ELSE [ss EXCEPT !.assets =
              Put(ss.assets, pid,
                  load_json(d, "assets", pid,
                            IF pid \in DOMAIN DEFAULT_ASSETS
                            THEN DEFAULT_ASSETS[pid] ELSE <<>>))]

ensure_partner_state(ss, d, pid) ==
    LET s1 == IF pid \in DOMAIN ss.tasks
              THEN ss
              ELSE [ss EXCEPT !.tasks =
                        Put(ss.tasks, pid, load_json(d, "tasks", pid, <<>>))]
        s2 == load_assets_for(s1, d, pid)
    IN  IF pid \in DOMAIN s1.asset_sel
        THEN s1
        ELSE [s2 EXCEPT !.asset_sel = Put(s2.asset_sel, pid, s2.assets[pid])]

\* role = profile().get("role", "AE").lower(); can_edit = role in
\* ("ae", "admin")
can_edit(ss) == Lower(ss.profile.role) \in {Lower(RoleAE), Lower(RoleAdmin)}

current_page(q) == IF "page" \in DOMAIN q THEN q["page"] ELSE "Me"
current_scope(q) == IF "scope" \in DOMAIN q THEN q["scope"] ELSE "active"
current_partner(q) == Get(q, "partner")

\* what the router and render_partnerships put on the screen
Shown(q) ==
    IF current_page(q) # "Partnerships"
    THEN current_page(q)
    ELSE IF current_partner(q) \in {None, ""}
         THEN "list"
         ELSE IF _partner_by_id(current_partner(q)) = None
              THEN "not_found"
              ELSE "brand"

\* every partner of PARTNERS
AllPartners ==
    {PARTNERS.active[i] : i \in DOMAIN PARTNERS.active}
        \cup {PARTNERS.prospective[i] : i \in DOMAIN PARTNERS.prospective}

RECURSIVE EnsureAll(_, _, _)
\* render_me's "My Tasks" loops: ensure_partner_state for every partner
EnsureAll(ss, d, todo) ==
    IF todo = {}
    THEN ss
    ELSE LET pid == CHOOSE x \in todo : TRUE
         IN  EnsureAll(ensure_partner_state(ss, d, pid), d, todo \ {pid})

\* render_me after the profile form: the loops over every partner's tasks;
\* the second one reads the undefined name u as soon as there is a task
render_me(ss, d) ==
    LET s1 == EnsureAll(ss, d, AllPartners)
    IN  [ss |-> s1,
         error |-> IF \E pid \in AllPartners : s1.tasks[pid] # <<>>
                   THEN "NameError" ELSE ""]

\* the asset checkboxes of the tasks tab: asset_sel[pid][cat] is looked up
\* for every category of assets[pid], and every asset of the category gets
\* an entry
AssetCheckboxes(ss, pid) ==
    LET cats == ss.assets[pid]
        sel == ss.asset_sel[pid]
    IN  IF DOMAIN cats \ DOMAIN sel # {}
        THEN [ss |-> ss, error |-> "KeyError"]
        ELSE [ss |-> [ss EXCEPT !.asset_sel[pid] =
                        [cat \in DOMAIN sel |->
                            IF cat \in DOMAIN cats
                            THEN sel[cat] \cup cats[cat] ELSE sel[cat]]],
              error |-> ""]

\* _brand_tabs(pid) from line 589 on: the partner's state is loaded, then
\* the tabs are drawn.  The "+ New Task" button of the tasks tab has the
\* key of the button drawn above the tabs for a user who can edit, which a
\* Streamlit that checks keys rejects.
_brand_tabs(ss, d, rt, pid) ==
    LET s1 == ensure_partner_state(load_assets_for(ss, d, pid), d, pid)
    IN  IF can_edit(s1) /\ rt.unique_keys
        THEN [ss |-> s1, error |-> "DuplicateWidgetID"]
        ELSE AssetCheckboxes(s1, pid)

\* the router: what one run of the script leaves in the session
Render(q, ss, d, rt) ==
    CASE Shown(q) = "brand" -> _brand_tabs(ss, d, rt, current_partner(q))
      [] Shown(q) = "Me" -> render_me(ss, d)
      [] OTHER -> [ss |-> ss, error |-> ""]

\* The run that handles an event ends, after a rerun if the handler asked
\* for one, with the page drawn from the state the handler left.  h names
\* what the handler executed: set_route, a task operation, or nothing of
\* the kind.
Finish(h, rr, q, ss, d, rt) ==
    LET r == Render(q, ss, d, rt)
    IN  /\ qp' = q
        /\ session_state' = r.ss
        /\ disk' = d
        /\ runtime' = rt
        /\ script' = [handler |-> h, rerun |-> rr, shown |-> Shown(q),
                      error |-> r.error]
        /\ UNCHANGED ingest_vars

\* a handler that raised: the run stops where it is
Fail(h, e) ==
    /\ script' = [handler |-> h, rerun |-> FALSE, shown |-> script.shown,
                  error |-> e]
    /\ UNCHANGED <<qp, session_state, disk, runtime>>
    /\ UNCHANGED ingest_vars

\* a handler that calls set_route(a)
Route(a) ==
    LET r == set_route(qp, a)
    IN  Finish("set_route", r.rerun, r.qp, session_state, disk, runtime)

\* ---- sidebar
\* the navigation radio (lines 378-379)
Navigate(p) ==
    /\ p # current_page(qp)
    /\ Route( RouteArgs(p, None, None, None))

\* "Open" under the scope and brand selectboxes (lines 381-391)
OpenFromSidebar(scope, pid) ==
    /\ current_page(qp) = "Partnerships"
    /\ _partner_by_id(pid) = scope
    /\ Route( RouteArgs("Partnerships", scope, pid, "overview"))

\* "Go" under the brand section selectbox (lines 393-402)
Go(scope, sub) ==
    /\ current_page(qp) = "Partnerships"
    /\ Shown(qp) = "brand"
    /\ Route( RouteArgs("Partnerships", scope, current_partner(qp), sub))

\* ---- partnership list (lines 840-853)
OpenFromList(pid) ==
    /\ script.shown = "list"
    /\ Route(
             RouteArgs("Partnerships", _partner_by_id(pid), pid, "overview"))

\* ---- Me (lines 448-498)
SaveProfile(role) ==
    /\ script.shown = "Me"
    /\ Finish("", TRUE, qp,
              [session_state EXCEPT !.profile.role = role],
              [disk EXCEPT !.profile = [role |-> role]], runtime)

\* ---- brand page
\* how many task ids are ever drawn, over all sessions
MaxTasks == 1

\* str(uuid.uuid4()): the n-th id drawn, unlike every other one
Uuid(n) == <<"0", "1", "2", "3", "4", "5", "6", "7", "8", "9">>[n + 1]

\* the ids a session can hold
TaskIdValues == {Uuid(n) : n \in 1..MaxTasks}

\* a task: its id, status and assignee (the other fields are free text)
Task(id, assignee) == [id |-> id, status |-> "open", assignee |-> assignee]

TaskIds(ss, pid) == {ss.tasks[pid][i].id : i \in DOMAIN ss.tasks[pid]}

\* save_tasks(pid)
save_tasks(ss, d, pid) == save_json(d, "tasks", pid, ss.tasks[pid])

\* new_task(pid, ...): a task with a fresh uuid is appended and saved
new_task(ss, d, rt, pid, assignee) ==
    LET s1 == ensure_partner_state(ss, d, pid)
        s2 == [s1 EXCEPT !.tasks[pid] =
                  Append(@, Task(Uuid(rt.uuids + 1), assignee))]
    IN  [ss |-> s2, d |-> save_tasks(s2, d, pid),
         rt |-> [rt EXCEPT !.uuids = @ + 1]]

\* update_task(pid, task_id, **fields): fields is a record of the fields
\* given
update_task(ss, d, pid, task_id, fields) ==
    LET s1 == ensure_partner_state(ss, d, pid)
        upd(t) == [k \in DOMAIN t |->
                      IF k \in DOMAIN fields THEN fields[k] ELSE t[k]]
        s2 == [s1 EXCEPT !.tasks[pid] =
                  [i \in DOMAIN @ |->
                      IF @[i].id = task_id THEN upd(@[i]) ELSE @[i]]]
    IN  [ss |-> s2, d |-> save_tasks(s2, d, pid)]

\* delete_tasks(pid, ids)
delete_tasks(ss, d, pid, ids) ==
    LET s1 == ensure_partner_state(ss, d, pid)
        s2 == [s1 EXCEPT !.tasks[pid] =
                  SelectSeq(@, LAMBDA t : t.id \notin ids)]
    IN  [ss |-> s2, d |-> save_tasks(s2, d, pid)]

RECURSIVE UpdateEach(_, _, _, _, _)
\* for tid in sel_ids: update_task(pid, tid, **fields)
UpdateEach(ss, d, pid, ids, fields) ==
    IF ids = {}
    THEN [ss |-> ss, d |-> d]
    ELSE LET tid == CHOOSE x \in ids : TRUE
             r == update_task(ss, d, pid, tid, fields)
         IN  UpdateEach(r.ss, r.d, pid, ids \ {tid}, fields)

\* the widgets of the last run that the user can still act on
TopDrawn == script.shown = "brand"
TabsDrawn == TopDrawn /\ script.error # "TypeError in form"
TasksTabDrawn == TabsDrawn /\ script.error # "DuplicateWidgetID"
TaskListDrawn == TasksTabDrawn /\ script.error # "TypeError in dialog"

\* the Asset selectbox of a task form has no option when the catalog has
\* no asset; asset_pick is then None
NoAssetToPick(ss, pid) == \A cat \in DOMAIN ss.assets[pid] :
                              ss.assets[pid][cat] = {}

\* "+ New Task" above the tabs (lines 551-557)
ClickNewTask ==
    /\ TopDrawn
    /\ can_edit(session_state)
    /\ Finish("", TRUE, qp,
              [session_state EXCEPT !.new_task_for = current_partner(qp)],
              disk, runtime)

\* variant: the form is drawn for whoever opened it (line 560 without
\* "and can_edit")
InlineFormDrawn_NoRoleCheck(ss, pid) == ss.new_task_for = pid

\* the inline form is drawn (line 560)
InlineFormDrawn(ss, pid) == ss.new_task_for = pid /\ can_edit(ss)

\* "Save Task" of the inline form (lines 574-583)
SaveTaskInline ==
    LET pid == current_partner(qp)
        r == new_task(session_state, disk, runtime, pid, "a")
    IN  /\ TopDrawn
        /\ InlineFormDrawn(session_state, pid)
        /\ runtime.uuids < MaxTasks
        /\ IF NoAssetToPick(session_state, pid)
           THEN Fail("", "TypeError in form")
           ELSE Finish("new_task", TRUE, qp,
                       [r.ss EXCEPT !.new_task_for = None], r.d, r.rt)

\* "Cancel" of the inline form (lines 585-587)
CancelNewTask ==
    /\ TopDrawn
    /\ InlineFormDrawn(session_state, current_partner(qp))
    /\ Finish("", TRUE, qp,
              [session_state EXCEPT !.new_task_for = None], disk, runtime)

\* "Back to all partnerships" in the overview tab (lines 607-608)
BackToAll ==
    /\ TabsDrawn
    /\ Route( RouteArgs("Partnerships",
                               _partner_by_id(current_partner(qp)),
                               None, None))

\* "+ New Task" in the tasks tab (lines 617, 663-664)
ClickNewTaskInTab ==
    /\ TasksTabDrawn
    /\ Finish("", FALSE, qp,
              IF can_edit(session_state)
              THEN [session_state EXCEPT !.show_new_task_modal = TRUE]
              ELSE session_state,
              disk, runtime)

\* "Save Task" of the dialog (lines 666-701)
SaveTaskModal ==
    LET pid == current_partner(qp)
        r == new_task(session_state, disk, runtime, pid, "")
    IN  /\ TasksTabDrawn
        /\ session_state.show_new_task_modal
        /\ can_edit(session_state)
        /\ runtime.uuids < MaxTasks
        /\ IF NoAssetToPick(session_state, pid)
           THEN Fail("", "TypeError in dialog")
           ELSE Finish("new_task", TRUE, qp,
                       [r.ss EXCEPT !.show_new_task_modal = FALSE],
                       r.d, r.rt)

\* "Select All Assets" (lines 623, 629-633): every entry asset_sel[pid]
\* has is set; no entry is added
SelectAll ==
    /\ TasksTabDrawn
    /\ Finish("", FALSE, qp, session_state, disk, runtime)

\* "Edit" on a task's row (lines 736-737)
ClickEdit(tid) ==
    /\ TaskListDrawn
    /\ can_edit(session_state)
    /\ tid \in TaskIds(session_state, current_partner(qp))
    /\ Finish("", FALSE, qp,
              [session_state EXCEPT !.edit_task_id = tid], disk, runtime)

\* "Save Changes" of the edit form (lines 742-773)
SaveEdit(status) ==
    LET pid == current_partner(qp)
        tid == session_state.edit_task_id
        r == update_task(session_state, disk, pid, tid, [status |-> status])
    IN  /\ TaskListDrawn
        /\ can_edit(session_state)
        /\ tid # None
        /\ tid \in TaskIds(session_state, pid)
        /\ Finish("update_task", TRUE, qp,
                  [r.ss EXCEPT !.edit_task_id = None], r.d, runtime)

\* "Delete" on a task's row (lines 738-739)
ClickDelete(tid) ==
    LET pid == current_partner(qp)
        r == delete_tasks(session_state, disk, pid, {tid})
    IN  /\ TaskListDrawn
        /\ can_edit(session_state)
        /\ tid \in TaskIds(session_state, pid)
        /\ Finish("delete_tasks", TRUE, qp, r.ss, r.d, runtime)

\* "Mark Complete" on the ticked tasks (lines 779-781)
BulkComplete(sel_ids) ==
    LET pid == current_partner(qp)
        r == UpdateEach(session_state, disk, pid, sel_ids,
                        [status |-> "complete"])
    IN  /\ TaskListDrawn
        /\ can_edit(session_state)
        /\ sel_ids # {}
        /\ sel_ids \subseteq TaskIds(session_state, pid)
        /\ Finish("update_task", TRUE, qp, r.ss, r.d, runtime)

\* "Assign" on the ticked tasks (lines 783-786)
BulkAssign(sel_ids) ==
    LET pid == current_partner(qp)
        r == UpdateEach(session_state, disk, pid, sel_ids,
                        [assignee |-> "a"])
    IN  /\ TaskListDrawn
        /\ can_edit(session_state)
        /\ sel_ids # {}
        /\ sel_ids \subseteq TaskIds(session_state, pid)
        /\ Finish("update_task", TRUE, qp, r.ss, r.d, runtime)

\* "Delete Selected" (lines 788-789)
BulkDelete(sel_ids) ==
    LET pid == current_partner(qp)
        r == delete_tasks(session_state, disk, pid, sel_ids)
    IN  /\ TaskListDrawn
        /\ can_edit(session_state)
        /\ sel_ids # {}
        /\ sel_ids \subseteq TaskIds(session_state, pid)
        /\ Finish("delete_tasks", TRUE, qp, r.ss, r.d, runtime)

\* ---- Settings: "Upload & Replace" for the partner chosen in the
\* selectboxes (lines 904-926)
UploadReplace(pid, data) ==
    LET s1 == load_assets_for(session_state, disk, pid)
        s2 == [s1 EXCEPT !.assets[pid] = data]
    IN  /\ script.shown = "Settings"
        /\ Finish("", TRUE, qp, s2,
                  save_json(disk, "assets", pid, data), runtime)

\* ---- a session
\* the task file of a partner that has one when the session opens
StoredTask == [id |-> Uuid(1), status |-> "open", assignee |-> ""]

Disks ==
    { [tasks |-> t, assets |-> <<>>, profile |-> [role |-> role]] :
        t \in { <<>>, [coke |-> <<StoredTask>>] }, role \in StartRoles }

\* the URLs a session is opened with
StartUrls == { q \in Urls : current_page(q) \in {"Me", "Partnerships"} }

\* a session opened at one of the urls over one of the disks, after its
\* first run
InitSession(urls, disks) ==
    /\ NotIngesting
    /\ \E q \in urls, d \in disks, k \in BOOLEAN :
          LET rt == [uuids |-> IF d.tasks = <<>> THEN 0 ELSE 1,
                     unique_keys |-> k]
              r == Render(q, NewSession(d.profile.role), d, rt)
          IN  /\ qp = q
              /\ disk = d
              /\ runtime = rt
              /\ session_state = r.ss
              /\ script = [NoScript EXCEPT !.shown = Shown(q),
                                           !.error = r.error]

\* the partner whose catalog is replaced and whose tasks are worked on
WorkedPartners == {"coke"}

\* the route and the asset catalogs, with no task on disk
InitApp == InitSession(StartUrls, {d \in Disks : d.tasks = <<>>})

NextApp ==
    \/ \E p \in PageValues : Navigate(p)
    \/ \E scope \in ScopeValues, pid \in OpenedPartners :
          OpenFromSidebar(scope, pid)
    \/ \E scope \in ScopeValues, sub \in SectionValues : Go(scope, sub)
    \/ \E pid \in OpenedPartners : OpenFromList(pid)
    \/ BackToAll
    \/ SelectAll
    \/ \E pid \in WorkedPartners, data \in Uploads : UploadReplace(pid, data)

SpecApp == InitApp /\ [][NextApp]_vars

\* the task lists: sessions on the Me page and the brand pages
InitTasks ==
    InitSession({ q \in StartUrls :
                    /\ "scope" \notin DOMAIN q
                    /\ "section" \notin DOMAIN q
                    /\ Get(q, "partner") \in {None, "coke"} }, Disks)

NextTasks ==
    \/ \E p \in {"Me", "Partnerships"} : Navigate(p)
    \/ \E pid \in WorkedPartners : OpenFromList(pid)
    \/ \E role \in PickedRoles : SaveProfile(role)
    \/ ClickNewTask
    \/ SaveTaskInline
    \/ CancelNewTask
    \/ ClickNewTaskInTab
    \/ SaveTaskModal
    \/ \E tid \in TaskIdValues : ClickEdit(tid)
    \/ \E status \in {"open", "complete"} : SaveEdit(status)
    \/ \E tid \in TaskIdValues : ClickDelete(tid)
    \/ \E sel_ids \in SUBSET TaskIdValues : BulkComplete(sel_ids)
    \/ \E sel_ids \in SUBSET TaskIdValues : BulkAssign(sel_ids)
    \/ \E sel_ids \in SUBSET TaskIdValues : BulkDelete(sel_ids)

SpecTasks == InitTasks /\ [][NextTasks]_vars

\* ---------------------------------------------------- claims on the app
\* C26: clicking "Back to all partnerships" on a brand page removes the
\* partner from the route: after the click the query parameters hold no
\* partner and the render that follows shows the partnership list.
C26_BackRemovesPartner ==
    [][BackToAll => /\ "partner" \notin DOMAIN qp'
                    /\ script'.shown = "list"]_vars

\* C27: for each partner whose state was initialised, asset_sel[pid] has
\* an entry for every category of assets[pid] and every asset name in it,
\* also after "Upload & Replace", so that the brand page never looks up a
\* category that asset_sel[pid] lacks.
C27_SelectionCoversCatalog ==
    /\ \A pid \in DOMAIN session_state.asset_sel :
          \A cat \in DOMAIN session_state.assets[pid] :
              /\ cat \in DOMAIN session_state.asset_sel[pid]
              /\ session_state.assets[pid][cat]
                    \subseteq session_state.asset_sel[pid][cat]
    /\ script.error # "KeyError"

\* --------------------------------------------------- claims on the tasks
\* the profile role is AE or Admin, in whatever letter case it is spelled
EditorRole == \/ EqIgnoreCase(session_state.profile.role, RoleAE)
              \/ EqIgnoreCase(session_state.profile.role, RoleAdmin)

TaskOperations == {"new_task", "update_task", "delete_tasks"}

\* C24: only a user whose profile role is AE or Admin can change a
\* partner's task list: whatever a user with another role clicks or
\* submits, neither new_task nor update_task nor delete_tasks is executed,
\* and the task lists of the session and on disk stay as they are.
C24_OnlyEditorsChangeTasks ==
    [][~EditorRole =>
          /\ script'.handler \notin TaskOperations
          /\ disk'.tasks = disk.tasks
          /\ \A pid \in DOMAIN session_state.tasks :
                session_state'.tasks[pid] = session_state.tasks[pid]]_vars

\* a user who cannot edit is on the tasks tab of a partner that has a
\* task, with the create form left open by a user who could
C24_Witness ==
    /\ ~EditorRole
    /\ TaskListDrawn
    /\ session_state.tasks[current_partner(qp)] # <<>>
    /\ session_state.new_task_for = current_partner(qp)

====
